---- MODULE Spec2Model ----
(***************************************************************************)
(* Optimistic task/list stores, their REST backend and the undo/redo log   *)
(* of shwilliamson/a-test, as one state machine.                           *)
(*                                                                         *)
(* A call of a store operation runs up to its first await in one step      *)
(* (validation, optimistic setTasks, fetch issued), the backend handles    *)
(* the request in a second step, and the continuation after the await      *)
(* (reconcile or roll back, then the wrapper's record / the stack move of  *)
(* undo and redo) runs in a third.  Calls overlap only at those points.    *)
(* Every call reads the state of the latest render.                        *)
(***************************************************************************)
EXTENDS Integers, Sequences, FiniteSets, TLC

\* ---------------------------------------------------------------- constants
MAX_TASKS_PER_LIST == 25
MAX_LISTS_PER_USER == 10
TITLE_MAX_LENGTH == 64

\* ------------------------------------------------------------------- bounds
\* MaxClock: the last millisecond; MaxPending: calls in flight at once;
\* MaxCalls, LogCalls, RedoCalls, SeqCalls: calls made by the UI in one
\* behaviour of Spec, SpecLog, SpecRedo, and SpecSeq / SpecBalance.
MaxClock == 2
MaxPending == 2
MaxCalls == 2
LogCalls == 3
RedoCalls == 4
SeqCalls == 3
LimitCalls == 3
ReorderCalls == 2
RaceCalls == 2
ScopeCalls == 2
ItemCalls == 2
StampCalls == 2

\* ------------------------------------------------------------------ strings
\* A title is a sequence of characters; " " is the only whitespace used.
RECURSIVE TrimLeft(_)
TrimLeft(s) == IF s # <<>> /\ Head(s) = " " THEN TrimLeft(Tail(s)) ELSE s

RECURSIVE TrimRight(_)
TrimRight(s) ==
    IF s # <<>> /\ s[Len(s)] = " " THEN TrimRight(SubSeq(s, 1, Len(s) - 1)) ELSE s

\* String.prototype.trim
Trim(s) == TrimRight(TrimLeft(s))

TitleA == <<"a">>
TitleB == <<"b">>
TitleLong == [i \in 1..(TITLE_MAX_LENGTH + 1) |-> "a"]
TitleInputs == {<<" ", "b", " ">>, <<" ">>, TitleLong}

\* -------------------------------------------------------------------- tasks
Task(id, title, isCompleted, order, updatedAt) ==
    [id |-> id, title |-> title, isCompleted |-> isCompleted,
     order |-> order, updatedAt |-> updatedAt]

NoTask == Task(0, <<>>, FALSE, 0, 0)

\* `temp-${Date.now()}`: the temp id made at clock value t; server ids are > 0.
TempId(t) == 0 - t
IsTemp(id) == id < 0

Range(s) == {s[i] : i \in DOMAIN s}
Ids(ts) == {ts[i].id : i \in DOMAIN ts}

RECURSIVE SetMax(_)
SetMax(S) ==
    IF S = {} THEN 0
    ELSE LET x == CHOOSE y \in S : TRUE
             m == SetMax(S \ {x})
         IN IF x > m THEN x ELSE m

\* tasks.length > 0 ? Math.max(...tasks.map(t => t.order)) : 0
MaxOrder(ts) == SetMax({ts[i].order : i \in DOMAIN ts})

\* findIndex(t => t.id === id) + 1, 0 when absent
IndexOf(ts, id) ==
    IF id \in Ids(ts) THEN CHOOSE i \in DOMAIN ts : ts[i].id = id /\ \A j \in 1..(i - 1) : ts[j].id # id
    ELSE 0

\* tasks.find(t => t.id === id)
Find(ts, id) == IF IndexOf(ts, id) = 0 THEN NoTask ELSE ts[IndexOf(ts, id)]

\* prev.map(t => t.id === id ? f(t) : t), f a function on the elements of ts
MapId(ts, id, f) == [i \in DOMAIN ts |-> IF ts[i].id = id THEN f[ts[i]] ELSE ts[i]]

\* prev.filter(t => t.id !== id)
RECURSIVE FilterOut(_, _)
FilterOut(ts, id) ==
    IF ts = <<>> THEN <<>>
    ELSE IF Head(ts).id = id THEN FilterOut(Tail(ts), id)
         ELSE <<Head(ts)>> \o FilterOut(Tail(ts), id)

\* Array.prototype.sort((a, b) => a.order - b.order): stable
RECURSIVE InsertByOrder(_, _)
InsertByOrder(s, t) ==
    IF s = <<>> THEN <<t>>
    ELSE IF s[Len(s)].order <= t.order THEN Append(s, t)
         ELSE Append(InsertByOrder(SubSeq(s, 1, Len(s) - 1), t), s[Len(s)])

RECURSIVE SortByOrder(_)
SortByOrder(s) ==
    IF s = <<>> THEN <<>>
    ELSE InsertByOrder(SortByOrder(SubSeq(s, 1, Len(s) - 1)), s[Len(s)])

\* ------------------------------------------------------------ undo actions
\* UndoableAction: one record shape for the five variants; n tells two
\* recorded actions with equal contents apart (the log holds objects).
NoAction ==
    [type |-> "NONE", n |-> 0, task |-> NoTask, taskId |-> 0, previousState |-> FALSE,
     previousTitle |-> <<>>, newTitle |-> <<>>, previousOrders |-> <<>>, newOrders |-> <<>>]

\* tasks.map(task => ({ taskId: task.id, order: task.order }))
OrdersOf(ts) == [i \in DOMAIN ts |-> [taskId |-> ts[i].id, order |-> ts[i].order]]

\* ------------------------------------------------------------------- calls
\* One call in flight: the values its closure captured before the await.
\*   op     the store operation (restore = the undo closure of deleteTask)
\*   rec    who awaits it: raw (the store's caller), wrap (a ...WithUndo
\*          wrapper), undo, redo
\*   phase  sent (request under way), ok (2xx response under way, in resp)
\*          or lost (handled by the backend, response lost)
\*   pre    the collection when the call was made
NoCall ==
    [op |-> "none", rec |-> "raw", phase |-> "sent", id |-> 0, title |-> <<>>,
     old |-> <<>>, flag |-> FALSE, orders |-> <<>>, snap |-> <<>>, task |-> NoTask,
     act |-> NoAction, stk |-> <<>>, resp |-> <<>>, pre |-> <<>>, at |-> 0]

VARIABLES
    tasks,       \* TasksProvider: useState<Task[]>
    server,      \* the list's tasks collection in Firestore, in creation order
    nextId,      \* the next document id Firestore issues
    now,         \* Date.now() / Timestamp.now()
    calls,       \* the calls in flight, in issue order
    undoStack,   \* useUndoRedo: useState<UndoableAction[]>
    redoStack,   \* useUndoRedo: useState<UndoableAction[]>
    recorded,    \* number of actions recorded so far
    issued,      \* number of calls the UI made so far
    last,        \* how the most recently settled call ended
    trail,       \* observer of one action, its undo and the redo after it
    lists,       \* ListsProvider: useState<List[]>
    serverLists, \* the user's lists collection in Firestore
    listCalls,   \* the list calls in flight
    nextListId   \* the next list document id

listVars == <<lists, serverLists, listCalls, nextListId>>
taskVars == <<tasks, server, nextId, calls, undoStack, redoStack, recorded, trail>>
vars == <<tasks, server, nextId, now, calls, undoStack, redoStack, recorded, issued, last, trail,
          lists, serverLists, listCalls, nextListId>>

\* ---------------------------------------------- store operations, to the await
\* What a call does before its first await:
\*   st = "threw"  rejected before any request (tasks untouched)
\*   st = "noop"   the store operation resolved without a request
\*   st = "skip"   the wrapper returned before calling the store operation
\*   st = "sent"   optimistic collection in ts, captured values in call
Threw == [st |-> "threw", ts |-> tasks, call |-> NoCall]
Noop(call) == [st |-> "noop", ts |-> tasks, call |-> call]
Skip == [st |-> "skip", ts |-> tasks, call |-> NoCall]

\* The result r of an operation, with the operation's name.
Named(op, r) == [r EXCEPT !.call.op = op]
Sent(ts, call) == [st |-> "sent", ts |-> ts, call |-> [call EXCEPT !.pre = tasks]]

\* variant: createTask with order = tasks.length + 1
createTaskByLength(title) ==
    LET t == Trim(title)
        tempId == TempId(now)
        optimisticTask == Task(tempId, t, FALSE, Len(tasks) + 1, now)
    IN IF t = <<>> THEN Threw
       ELSE IF Len(t) > TITLE_MAX_LENGTH THEN Threw
       ELSE IF Len(tasks) >= MAX_TASKS_PER_LIST THEN Threw
       ELSE Sent(Append(tasks, optimisticTask),
                 [NoCall EXCEPT !.op = "create", !.id = tempId, !.title = t])

\* variant: createTask without the check of tasks.length
createTaskUnlimited(title) ==
    LET t == Trim(title)
        tempId == TempId(now)
        optimisticTask == Task(tempId, t, FALSE, MaxOrder(tasks) + 1, now)
    IN IF t = <<>> THEN Threw
       ELSE IF Len(t) > TITLE_MAX_LENGTH THEN Threw
       ELSE Sent(Append(tasks, optimisticTask),
                 [NoCall EXCEPT !.op = "create", !.id = tempId, !.title = t])

createTask(title) ==
    LET t == Trim(title)
        tempId == TempId(now)
        optimisticTask == Task(tempId, t, FALSE, MaxOrder(tasks) + 1, now)
    IN IF t = <<>> THEN Threw
       ELSE IF Len(t) > TITLE_MAX_LENGTH THEN Threw
       ELSE IF Len(tasks) >= MAX_TASKS_PER_LIST THEN Threw
       ELSE Sent(Append(tasks, optimisticTask),
                 [NoCall EXCEPT !.op = "create", !.id = tempId, !.title = t])

toggleComplete(taskId) ==
    LET task == Find(tasks, taskId)
        newIsCompleted == ~task.isCompleted
    IN IF taskId \notin Ids(tasks) THEN Threw
       ELSE Sent(MapId(tasks, taskId,
                       [t \in Range(tasks) |-> [t EXCEPT !.isCompleted = newIsCompleted, !.updatedAt = now]]),
                 [NoCall EXCEPT !.op = "toggle", !.id = taskId, !.flag = newIsCompleted])

updateTitle(taskId, newTitle) ==
    LET trimmedTitle == Trim(newTitle)
        oldTitle == Find(tasks, taskId).title
    IN IF trimmedTitle = <<>> THEN Threw
       ELSE IF Len(trimmedTitle) > TITLE_MAX_LENGTH THEN Threw
       ELSE IF taskId \notin Ids(tasks) THEN Threw
       ELSE IF trimmedTitle = oldTitle
            THEN Noop([NoCall EXCEPT !.op = "title", !.id = taskId, !.title = trimmedTitle,
                                     !.old = oldTitle])
       ELSE Sent(MapId(tasks, taskId,
                       [t \in Range(tasks) |-> [t EXCEPT !.title = trimmedTitle, !.updatedAt = now]]),
                 [NoCall EXCEPT !.op = "title", !.id = taskId, !.title = trimmedTitle,
                                !.old = oldTitle])

\* for (const order of orders) { findIndex ...; reorderedTasks[i] = {...} }
RECURSIVE ApplyOrders(_, _, _)
ApplyOrders(ts, orders, stamp) ==
    IF orders = <<>> THEN ts
    ELSE LET o == Head(orders)
             i == IndexOf(ts, o.taskId)
         IN ApplyOrders(IF i = 0 THEN ts
                        ELSE [ts EXCEPT ![i].order = o.order, ![i].updatedAt = stamp],
                        Tail(orders), stamp)

reorderTasks(orders) ==
    Sent(SortByOrder(ApplyOrders(tasks, orders, now)),
         [NoCall EXCEPT !.op = "reorder", !.orders = orders, !.snap = tasks])

\* variant: deleteTask without the check that the task is in the collection
deleteTaskUnchecked(taskId) ==
    Sent(FilterOut(tasks, taskId),
         [NoCall EXCEPT !.op = "delete", !.id = taskId, !.task = Find(tasks, taskId)])

deleteTask(taskId) ==
    IF taskId \notin Ids(tasks) THEN Threw
    ELSE Sent(FilterOut(tasks, taskId),
              [NoCall EXCEPT !.op = "delete", !.id = taskId, !.task = Find(tasks, taskId)])

\* the undo closure returned by deleteTask: POST the captured title again
undoFunction(deletedTask) ==
    Sent(tasks, [NoCall EXCEPT !.op = "restore", !.title = deletedTask.title])

refreshTasks == Sent(tasks, [NoCall EXCEPT !.op = "refresh"])

\* ------------------------------------------------ the ...WithUndo wrappers
createTaskWithUndo(title) == createTask(title)

deleteTaskWithUndo(taskId) == IF taskId \notin Ids(tasks) THEN Threw ELSE deleteTask(taskId)

toggleCompleteWithUndo(taskId) ==
    IF taskId \notin Ids(tasks) THEN Threw ELSE toggleComplete(taskId)

\* variant: updateTitleWithUndo without the return on an unchanged title
updateTitleWithUndoAlways(taskId, newTitle) ==
    IF taskId \notin Ids(tasks) THEN Threw
    ELSE updateTitle(taskId, newTitle)

updateTitleWithUndo(taskId, newTitle) ==
    IF taskId \notin Ids(tasks) THEN Threw
    ELSE IF Trim(newTitle) = Find(tasks, taskId).title THEN Skip
    ELSE updateTitle(taskId, newTitle)

reorderTasksWithUndo(orders) == reorderTasks(orders)

\* The action a wrapper hands to recordAction once its store call resolved.
ActionOf(c, n) ==
    CASE c.op = "create" -> [NoAction EXCEPT !.type = "ADD_TASK", !.n = n, !.task = c.resp[1]]
      [] c.op = "delete" -> [NoAction EXCEPT !.type = "DELETE_TASK", !.n = n, !.task = c.task]
      [] c.op = "toggle" ->
            [NoAction EXCEPT !.type = "COMPLETE_TASK", !.n = n, !.taskId = c.id,
                             !.previousState = ~c.flag]
      [] c.op = "title" ->
            [NoAction EXCEPT !.type = "EDIT_TITLE", !.n = n, !.taskId = c.id,
                             !.previousTitle = c.old, !.newTitle = c.title]
      [] OTHER ->
            [NoAction EXCEPT !.type = "REORDER_TASKS", !.n = n,
                             !.previousOrders = OrdersOf(c.snap), !.newOrders = c.orders]

\* ----------------------------------------------------- undo / redo dispatch
\* variant: undo() of a reorder dispatching newOrders
UndoDispatchForward(action) ==
    CASE action.type = "ADD_TASK" -> deleteTask(action.task.id)
      [] action.type = "DELETE_TASK" -> undoFunction(action.task)
      [] action.type = "COMPLETE_TASK" -> toggleComplete(action.taskId)
      [] action.type = "EDIT_TITLE" -> updateTitle(action.taskId, action.previousTitle)
      [] OTHER -> reorderTasks(action.newOrders)

\* the switch of undo(): the store call it awaits, through handlers
UndoDispatch(action) ==
    CASE action.type = "ADD_TASK" -> deleteTask(action.task.id)
      [] action.type = "DELETE_TASK" -> undoFunction(action.task)
      [] action.type = "COMPLETE_TASK" -> toggleComplete(action.taskId)
      [] action.type = "EDIT_TITLE" -> updateTitle(action.taskId, action.previousTitle)
      [] OTHER -> reorderTasks(action.previousOrders)

\* the switch of redo()
RedoDispatch(action) ==
    CASE action.type = "ADD_TASK" -> createTask(action.task.title)
      [] action.type = "DELETE_TASK" -> deleteTask(action.task.id)
      [] action.type = "COMPLETE_TASK" -> toggleComplete(action.taskId)
      [] action.type = "EDIT_TITLE" -> updateTitle(action.taskId, action.newTitle)
      [] OTHER -> reorderTasks(action.newOrders)

\* the store operation an action's undo / redo goes through
UndoOp(action) ==
    CASE action.type = "ADD_TASK" -> "delete"
      [] action.type = "DELETE_TASK" -> "restore"
      [] action.type = "COMPLETE_TASK" -> "toggle"
      [] action.type = "EDIT_TITLE" -> "title"
      [] OTHER -> "reorder"

RedoOp(action) ==
    CASE action.type = "ADD_TASK" -> "create"
      [] action.type = "DELETE_TASK" -> "delete"
      [] action.type = "COMPLETE_TASK" -> "toggle"
      [] action.type = "EDIT_TITLE" -> "title"
      [] OTHER -> "reorder"

Front(s) == SubSeq(s, 1, Len(s) - 1)
RemoveAt(s, i) == SubSeq(s, 1, i - 1) \o SubSeq(s, i + 1, Len(s))

\* ----------------------------------------------------------------- observers
\* last.result: ok (resolved), noop (resolved without a request), threw
\* (rejected before any request), rejected (rejected after the request
\* failed), error (refreshTasks: error set, nothing thrown).

\* The collection without ids and timestamps.
View(ts) == [i \in DOMAIN ts |-> <<ts[i].title, ts[i].isCompleted, ts[i].order>>]

\* last.op names the store operation when the observer follows it (op is
\* not "off" initially); api and result are always followed.
Outcome(rec, op, result) ==
    [api |-> rec, result |-> result, op |-> IF last.op = "off" THEN "off" ELSE op]

\* last before any call has settled
NoOutcome(api, op) == [api |-> api, result |-> "none", op |-> op]

\* trail follows: a wrapper recorded an action (acted), the next call was
\* undo() and it resolved (undone), the next call was redo() and it settled
\* (redone).  snap is View(tasks) right after the record.
NoTrail(stage) == [stage |-> stage, type |-> "NONE", snap |-> <<>>]

TrailOnCall(rec) ==
    IF trail.stage = "off" THEN trail
    ELSE IF rec = "undo" /\ trail.stage = "acted" THEN trail
    ELSE IF rec = "redo" /\ trail.stage = "undone" THEN trail
    ELSE NoTrail("idle")

TrailOnSettle(rec, result, action, ts) ==
    IF trail.stage = "off" THEN trail
    ELSE IF rec = "wrap" /\ result = "ok"
         THEN [stage |-> "acted", type |-> action.type, snap |-> View(ts)]
    ELSE IF rec = "undo" /\ result = "ok" /\ trail.stage = "acted"
         THEN [trail EXCEPT !.stage = "undone"]
    ELSE IF rec = "redo" /\ result # "noop" /\ trail.stage = "undone"
         THEN [trail EXCEPT !.stage = "redone"]
    ELSE NoTrail("idle")

\* ------------------------------------------------------------------ backend
\* POST /:listId/tasks
ServerCreate(title) == Task(nextId, title, FALSE, MaxOrder(server) + 1, now)

\* const now = firestore.Timestamp.now() of the route that handles call c:
\* the clock of the step in which the route runs; for a PATCH that read it
\* and then waited (ServerStamp), the value it read.
StampOf(c) == IF c.phase = "stamped" THEN c.at ELSE now

\* PATCH /:listId/tasks/:taskId; the response repeats the fields read before
\* the update and the fields of updateData
ServerPatch(c) ==
    LET taskData == Find(server, c.id)
    IN IF c.op = "toggle" THEN [taskData EXCEPT !.isCompleted = c.flag, !.updatedAt = StampOf(c)]
       ELSE [taskData EXCEPT !.title = c.title, !.updatedAt = StampOf(c)]

\* The list whose tasks collection is server.
OwnerId == 1

\* listsRef.doc(listId).update({ updatedAt: now }) after a task write; the
\* list document is kept with the size of its tasks collection, ts.
Completed(ts) == {i \in DOMAIN ts : ts[i].isCompleted}

TouchList(ls, at, ts) ==
    MapId(ls, OwnerId,
          [d \in Range(ls) |->
              [d EXCEPT !.updatedAt = at, !.tasks = Len(ts), !.done = Cardinality(Completed(ts))]])

\* PATCH /:listId/tasks/reorder: one response entry per order item
ServerReorderResponse(orders) ==
    [i \in DOMAIN orders |->
        [Find(server, orders[i].taskId) EXCEPT !.order = orders[i].order, !.updatedAt = now]]

\* GET /:listId/tasks: orderBy('order', 'asc')
ServerGet == SortByOrder(server)

\* Whether the route answers 2xx for the request of call c.
Accepts(c) ==
    CASE c.op \in {"create", "restore"} -> Len(server) < MAX_TASKS_PER_LIST
      [] c.op \in {"toggle", "title", "delete"} -> c.id \in Ids(server)
      [] c.op = "reorder" ->
            /\ c.orders # <<>>
            /\ \A i \in DOMAIN c.orders :
                  c.orders[i].order >= 1 /\ c.orders[i].taskId \in Ids(server)
      [] OTHER -> TRUE

\* The writes of the route for call i and its 2xx response, delivered or
\* lost.
ServerEffect(i, delivered) ==
    /\ LET c == calls[i]
           created == ServerCreate(c.title)
       IN /\ server' =
                CASE c.op \in {"create", "restore"} -> Append(server, created)
                  [] c.op \in {"toggle", "title"} ->
                        MapId(server, c.id, [t \in Range(server) |-> ServerPatch(c)])
                  [] c.op = "reorder" -> ApplyOrders(server, c.orders, now)
                  [] c.op = "delete" -> FilterOut(server, c.id)
                  [] OTHER -> server
          /\ nextId' = IF c.op \in {"create", "restore"} THEN nextId + 1 ELSE nextId
          /\ calls' = [calls EXCEPT ![i].phase = IF delivered THEN "ok" ELSE "lost",
                          ![i].resp =
                              CASE ~delivered -> <<>>
                                [] c.op \in {"create", "restore"} -> <<created>>
                                [] c.op \in {"toggle", "title"} -> <<ServerPatch(c)>>
                                [] c.op = "reorder" -> ServerReorderResponse(c.orders)
                                [] c.op = "refresh" -> ServerGet
                                [] OTHER -> <<>>]
    /\ serverLists' = IF calls[i].op = "refresh" THEN serverLists
                      ELSE TouchList(serverLists, StampOf(calls[i]), server')
    /\ UNCHANGED <<tasks, now, undoStack, redoStack, recorded, issued, last, trail>>
    /\ UNCHANGED <<lists, listCalls, nextListId>>

\* The backend handles the request of call i in one step and answers 2xx.
ServerHandle(i, delivered) ==
    /\ i \in DOMAIN calls
    /\ calls[i].phase = "sent"
    /\ Accepts(calls[i])
    /\ ServerEffect(i, delivered)

\* POST /:listId/tasks is a read followed by a write, outside a transaction:
\* existingTasks.size is read and compared with MAX_TASKS_PER_LIST ...
ServerCount(i) ==
    /\ i \in DOMAIN calls
    /\ calls[i].op \in {"create", "restore"}
    /\ calls[i].phase = "sent"
    /\ Len(server) < MAX_TASKS_PER_LIST
    /\ calls' = [calls EXCEPT ![i].phase = "counted"]
    /\ UNCHANGED <<tasks, server, nextId, now, undoStack, redoStack, recorded, issued, last,
                   trail>>
    /\ UNCHANGED listVars

\* ... and later the order is read and the task added.
ServerAdd(i, delivered) ==
    /\ i \in DOMAIN calls
    /\ calls[i].phase = "counted"
    /\ ServerEffect(i, delivered)

\* PATCH /:listId/tasks/:taskId reads the clock first, then awaits the list
\* and the task document ...
ServerStamp(i) ==
    /\ i \in DOMAIN calls
    /\ calls[i].op \in {"toggle", "title"}
    /\ calls[i].phase = "sent"
    /\ calls' = [calls EXCEPT ![i].phase = "stamped", ![i].at = now]
    /\ UNCHANGED <<tasks, server, nextId, now, undoStack, redoStack, recorded, issued, last,
                   trail>>
    /\ UNCHANGED listVars

\* ... and later writes the task and the list with the value it read.
ServerWrite(i, delivered) ==
    /\ i \in DOMAIN calls
    /\ calls[i].phase = "stamped"
    /\ Accepts(calls[i])
    /\ ServerEffect(i, delivered)

\* ------------------------------------------------- continuations after await
\* for (const updatedTask of updatedTasks) { findIndex ...; merged[i] = updatedTask }
RECURSIVE Merge(_, _)
Merge(ts, updatedTasks) ==
    IF updatedTasks = <<>> THEN ts
    ELSE LET u == Head(updatedTasks)
             i == IndexOf(ts, u.id)
         IN Merge(IF i = 0 THEN ts ELSE [ts EXCEPT ![i] = u], Tail(updatedTasks))

\* the setTasks of the try branch
\* variant: the restored task put in front
ReconcileRestoredFirst(c, prev) ==
    CASE c.op \in {"create", "toggle", "title"} -> MapId(prev, c.id, [t \in Range(prev) |-> c.resp[1]])
      [] c.op = "reorder" -> SortByOrder(Merge(prev, c.resp))
      [] c.op = "restore" -> <<c.resp[1]>> \o prev
      [] c.op = "refresh" -> c.resp
      [] OTHER -> prev

\* variant: the response of a toggle gives only the flag
ReconcileFlagOnly(c, prev) ==
    CASE c.op \in {"create", "title"} -> MapId(prev, c.id, [t \in Range(prev) |-> c.resp[1]])
      [] c.op = "toggle" ->
            MapId(prev, c.id, [t \in Range(prev) |-> [t EXCEPT !.isCompleted = c.resp[1].isCompleted]])
      [] c.op = "reorder" -> SortByOrder(Merge(prev, c.resp))
      [] c.op = "restore" -> Append(prev, c.resp[1])
      [] c.op = "refresh" -> c.resp
      [] OTHER -> prev

Reconcile(c, prev) ==
    CASE c.op \in {"create", "toggle", "title"} -> MapId(prev, c.id, [t \in Range(prev) |-> c.resp[1]])
      [] c.op = "reorder" -> SortByOrder(Merge(prev, c.resp))
      [] c.op = "restore" -> Append(prev, c.resp[1])
      [] c.op = "refresh" -> c.resp
      [] OTHER -> prev

\* variant: a failed delete puts the task at the end
RollbackAppends(c, prev) ==
    CASE c.op = "create" -> FilterOut(prev, c.id)
      [] c.op = "toggle" -> MapId(prev, c.id, [t \in Range(prev) |-> [t EXCEPT !.isCompleted = ~c.flag]])
      [] c.op = "title" -> MapId(prev, c.id, [t \in Range(prev) |-> [t EXCEPT !.title = c.old]])
      [] c.op = "reorder" -> c.snap
      [] c.op = "delete" -> Append(prev, c.task)
      [] OTHER -> prev

\* variant: a failed toggle flips the flag it finds
RollbackFlipsAgain(c, prev) ==
    CASE c.op = "create" -> FilterOut(prev, c.id)
      [] c.op = "toggle" -> MapId(prev, c.id, [t \in Range(prev) |-> [t EXCEPT !.isCompleted = ~t.isCompleted]])
      [] c.op = "title" -> MapId(prev, c.id, [t \in Range(prev) |-> [t EXCEPT !.title = c.old]])
      [] c.op = "reorder" -> c.snap
      [] c.op = "delete" -> SortByOrder(Append(prev, c.task))
      [] OTHER -> prev

\* variant: a failed reorder keeps the collection it finds
RollbackKeepsOrders(c, prev) ==
    CASE c.op = "create" -> FilterOut(prev, c.id)
      [] c.op = "toggle" -> MapId(prev, c.id, [t \in Range(prev) |-> [t EXCEPT !.isCompleted = ~c.flag]])
      [] c.op = "title" -> MapId(prev, c.id, [t \in Range(prev) |-> [t EXCEPT !.title = c.old]])
      [] c.op = "delete" -> SortByOrder(Append(prev, c.task))
      [] OTHER -> prev

\* the setTasks of the catch branch
Rollback(c, prev) ==
    CASE c.op = "create" -> FilterOut(prev, c.id)
      [] c.op = "toggle" -> MapId(prev, c.id, [t \in Range(prev) |-> [t EXCEPT !.isCompleted = ~c.flag]])
      [] c.op = "title" -> MapId(prev, c.id, [t \in Range(prev) |-> [t EXCEPT !.title = c.old]])
      [] c.op = "reorder" -> c.snap
      [] c.op = "delete" -> SortByOrder(Append(prev, c.task))
      [] OTHER -> prev

\* recordAction
RecordUndo(prev, action) == Append(prev, action)

\* variant of RecordRedo: recordAction keeps the redo stack
RecordRedoKept(prev) == prev
RecordRedo(prev) == <<>>

\* the two set-state calls that end undo()'s try block
UndoMoveUndo(prev, newUndoStack) == newUndoStack
UndoMoveRedo(prev, action) == Append(prev, action)

\* the two set-state calls that end redo()'s try block
RedoMoveRedo(prev, newRedoStack) == newRedoStack
RedoMoveUndo(prev, action) == Append(prev, action)

\* The stacks after the awaiting caller's catch (undo, redo) or after the
\* rejection passed through a wrapper: no set-state call is reached.
\* variant of RejectedUndoStack: a wrapper records although its store call
\* rejected
RejectedUndoStackRecorded(c, prev) ==
    IF c.rec = "wrap" THEN Append(prev, NoAction) ELSE prev
RejectedUndoStack(c, prev) == prev

\* variant of RejectedRedoStack: undo() pushes the action although its
\* dispatch rejected
RejectedRedoStackPushed(c, prev) ==
    IF c.rec = "undo" THEN Append(prev, c.act) ELSE prev
RejectedRedoStack(c, prev) == prev

\* What the awaiting caller does with the stacks once the store call resolved.
AfterResolve(c) ==
    CASE c.rec = "wrap" ->
            /\ undoStack' = RecordUndo(undoStack, ActionOf(c, recorded + 1))
            /\ redoStack' = RecordRedo(redoStack)
            /\ recorded' = recorded + 1
      [] c.rec = "undo" ->
            /\ undoStack' = UndoMoveUndo(undoStack, c.stk)
            /\ redoStack' = UndoMoveRedo(redoStack, c.act)
            /\ UNCHANGED recorded
      [] c.rec = "redo" ->
            /\ redoStack' = RedoMoveRedo(redoStack, c.stk)
            /\ undoStack' = RedoMoveUndo(undoStack, c.act)
            /\ UNCHANGED recorded
      [] OTHER -> UNCHANGED <<undoStack, redoStack, recorded>>

\* The response of call i arrives: the try branch runs to its end.
Resolve(i) ==
    /\ i \in DOMAIN calls
    /\ calls[i].phase = "ok"
    /\ LET c == calls[i]
       IN /\ tasks' = Reconcile(c, tasks)
          /\ AfterResolve(c)
          /\ last' = Outcome(c.rec, c.op, "ok")
          /\ trail' = TrailOnSettle(c.rec, "ok", ActionOf(c, 0), Reconcile(c, tasks))
    /\ calls' = RemoveAt(calls, i)
    /\ UNCHANGED <<server, nextId, now, issued>>
    /\ UNCHANGED listVars

\* The catch branch of call i: roll back, set the error, rethrow.
Catch(i) ==
    LET c == calls[i]
    IN /\ tasks' = Rollback(c, tasks)
       /\ calls' = RemoveAt(calls, i)
       \* refreshTasks sets the error and resolves; every other call rethrows
       /\ last' = Outcome(c.rec, c.op, IF c.op = "refresh" THEN "error" ELSE "rejected")
       /\ trail' = TrailOnSettle(c.rec, "rejected", NoAction, Rollback(c, tasks))
       /\ undoStack' = RejectedUndoStack(c, undoStack)
       /\ redoStack' = RejectedRedoStack(c, redoStack)
       /\ UNCHANGED <<server, nextId, now, recorded, issued>>
       /\ UNCHANGED listVars

\* fetch rejects: the request or its response is lost.
NetFail(i) ==
    /\ i \in DOMAIN calls
    /\ calls[i].phase # "ok"
    /\ Catch(i)

\* The backend answers 4xx.
ServerReject(i) ==
    /\ i \in DOMAIN calls
    /\ calls[i].phase \in {"sent", "stamped"}
    /\ ~Accepts(calls[i])
    /\ Catch(i)

\* ---------------------------------------------------------- calls by the UI
\* Ids a caller can pass: those on screen, and 0 for one that is not.
IdInputs == Ids(tasks) \cup {0}

RECURSIVE Perms(_)
Perms(S) ==
    IF S = {} THEN {<<>>}
    ELSE UNION {{<<x>> \o p : p \in Perms(S \ {x})} : x \in S}

\* movedTasks.map((task, index) => ({ taskId: task.id, order: index + 1 }))
\* for every arrangement movedTasks of the collection
OrderInputs ==
    {[k \in DOMAIN p |-> [taskId |-> tasks[p[k]].id, order |-> k]] : p \in Perms(DOMAIN tasks)}

\* The tasks the list holds when it is opened; Firestore issues ids from
\* FirstId on.
StoredTasks == <<Task(1, TitleA, FALSE, 1, 0), Task(2, TitleB, FALSE, 2, 0)>>
FirstId == Len(StoredTasks) + 1

\* A caller: recs, how it reaches the store (raw, wrap); limit, the calls it
\* lets overlap; budget, the calls it makes.
Caller(recs, limit, budget) == [recs |-> recs, limit |-> limit, budget |-> budget]
MayCall(k) == issued < k.budget
MaySend(r, k) == r.st = "sent" => Len(calls) < k.limit

Idle == NoTrail(IF trail.stage = "off" THEN "off" ELSE "idle")

\* A store operation, raw or through its wrapper, run to its first await.
Start(r, rec, k) ==
    /\ MayCall(k)
    /\ MaySend(r, k)
    /\ issued' = issued + 1
    /\ CASE r.st = "sent" ->
              /\ tasks' = r.ts
              /\ calls' = Append(calls, [r.call EXCEPT !.rec = rec])
              /\ trail' = TrailOnCall(rec)
              /\ UNCHANGED <<last, undoStack, redoStack, recorded>>
         [] r.st = "noop" /\ rec = "wrap" ->
              \* the awaited store call resolved at once: the wrapper records
              /\ undoStack' = RecordUndo(undoStack, ActionOf(r.call, recorded + 1))
              /\ redoStack' = RecordRedo(redoStack)
              /\ recorded' = recorded + 1
              /\ last' = Outcome(rec, r.call.op, "ok")
              /\ trail' = TrailOnSettle(rec, "ok", ActionOf(r.call, 0), tasks)
              /\ UNCHANGED <<tasks, calls>>
         [] r.st = "skip" \/ (r.st = "noop" /\ rec # "wrap") ->
              /\ last' = Outcome(rec, r.call.op, "noop")
              /\ trail' = Idle
              /\ UNCHANGED <<tasks, calls, undoStack, redoStack, recorded>>
         [] OTHER ->
              /\ last' = Outcome(rec, r.call.op, "threw")
              /\ trail' = Idle
              /\ UNCHANGED <<tasks, calls, undoStack, redoStack, recorded>>
    /\ UNCHANGED <<server, nextId, now>>
    /\ UNCHANGED listVars

CallCreate(k) ==
    \E title \in TitleInputs, rec \in k.recs :
        Start(Named("create",
                    IF rec = "wrap" THEN createTaskWithUndo(title) ELSE createTask(title)),
              rec, k)

ToggleCall(taskId, rec, k) ==
    Start(Named("toggle",
                IF rec = "wrap" THEN toggleCompleteWithUndo(taskId) ELSE toggleComplete(taskId)),
          rec, k)

CallToggle(k) == \E taskId \in IdInputs, rec \in k.recs : ToggleCall(taskId, rec, k)

TitleCall(taskId, newTitle, rec, k) ==
    Start(Named("title",
                IF rec = "wrap" THEN updateTitleWithUndo(taskId, newTitle)
                ELSE updateTitle(taskId, newTitle)),
          rec, k)

CallTitle(k) ==
    \E taskId \in IdInputs, newTitle \in TitleInputs, rec \in k.recs :
        TitleCall(taskId, newTitle, rec, k)

ReorderCall(orders, rec, k) ==
    Start(Named("reorder",
                IF rec = "wrap" THEN reorderTasksWithUndo(orders) ELSE reorderTasks(orders)),
          rec, k)

CallReorder(k) ==
    /\ tasks # <<>>
    /\ \E orders \in OrderInputs, rec \in k.recs : ReorderCall(orders, rec, k)

DeleteCall(taskId, rec, k) ==
    Start(Named("delete",
                IF rec = "wrap" THEN deleteTaskWithUndo(taskId) ELSE deleteTask(taskId)),
          rec, k)

CallDelete(k) == \E taskId \in IdInputs, rec \in k.recs : DeleteCall(taskId, rec, k)

CallRefresh(k) == Start(refreshTasks, "raw", k)

\* undo()
CallUndo(k) ==
    /\ MayCall(k)
    /\ issued' = issued + 1
    /\ IF undoStack = <<>>
       THEN /\ last' = Outcome("undo", "none", "noop")
            /\ trail' = Idle
            /\ UNCHANGED <<tasks, calls, undoStack, redoStack>>
       ELSE LET action == undoStack[Len(undoStack)]
                newUndoStack == Front(undoStack)
                r == UndoDispatch(action)
            IN /\ MaySend(r, k)
               /\ CASE r.st = "sent" ->
                         /\ tasks' = r.ts
                         /\ calls' = Append(calls, [r.call EXCEPT !.rec = "undo", !.act = action,
                                                                  !.stk = newUndoStack])
                         /\ trail' = TrailOnCall("undo")
                         /\ UNCHANGED <<last, undoStack, redoStack>>
                    [] r.st = "noop" ->
                         /\ undoStack' = UndoMoveUndo(undoStack, newUndoStack)
                         /\ redoStack' = UndoMoveRedo(redoStack, action)
                         /\ last' = Outcome("undo", UndoOp(action), "ok")
                         /\ trail' = TrailOnSettle("undo", "ok", action, tasks)
                         /\ UNCHANGED <<tasks, calls>>
                    [] OTHER ->
                         /\ undoStack' = RejectedUndoStack(
                                [NoCall EXCEPT !.rec = "undo", !.act = action,
                                               !.stk = newUndoStack], undoStack)
                         /\ redoStack' = RejectedRedoStack(
                                [NoCall EXCEPT !.rec = "undo", !.act = action,
                                               !.stk = newUndoStack], redoStack)
                         /\ last' = Outcome("undo", UndoOp(action), "threw")
                         /\ trail' = TrailOnSettle("undo", "rejected", action, tasks)
                         /\ UNCHANGED <<tasks, calls>>
    /\ UNCHANGED <<server, nextId, now, recorded>>
    /\ UNCHANGED listVars

\* redo()
CallRedo(k) ==
    /\ MayCall(k)
    /\ issued' = issued + 1
    /\ IF redoStack = <<>>
       THEN /\ last' = Outcome("redo", "none", "noop")
            /\ trail' = Idle
            /\ UNCHANGED <<tasks, calls, undoStack, redoStack>>
       ELSE LET action == redoStack[Len(redoStack)]
                newRedoStack == Front(redoStack)
                r == RedoDispatch(action)
            IN /\ MaySend(r, k)
               /\ CASE r.st = "sent" ->
                         /\ tasks' = r.ts
                         /\ calls' = Append(calls, [r.call EXCEPT !.rec = "redo", !.act = action,
                                                                  !.stk = newRedoStack])
                         /\ trail' = TrailOnCall("redo")
                         /\ UNCHANGED <<last, undoStack, redoStack>>
                    [] r.st = "noop" ->
                         /\ redoStack' = RedoMoveRedo(redoStack, newRedoStack)
                         /\ undoStack' = RedoMoveUndo(undoStack, action)
                         /\ last' = Outcome("redo", RedoOp(action), "ok")
                         /\ trail' = TrailOnSettle("redo", "ok", action, tasks)
                         /\ UNCHANGED <<tasks, calls>>
                    [] OTHER ->
                         /\ undoStack' = RejectedUndoStack(
                                [NoCall EXCEPT !.rec = "redo", !.act = action,
                                               !.stk = newRedoStack], undoStack)
                         /\ redoStack' = RejectedRedoStack(
                                [NoCall EXCEPT !.rec = "redo", !.act = action,
                                               !.stk = newRedoStack], redoStack)
                         /\ last' = Outcome("redo", RedoOp(action), "threw")
                         /\ trail' = TrailOnSettle("redo", "rejected", action, tasks)
                         /\ UNCHANGED <<tasks, calls>>
    /\ UNCHANGED <<server, nextId, now, recorded>>
    /\ UNCHANGED listVars

\* A millisecond passes.
Tick ==
    /\ now < MaxClock
    /\ now' = now + 1
    /\ UNCHANGED <<tasks, server, nextId, calls, undoStack, redoStack, recorded, issued, last,
                   trail>>
    /\ UNCHANGED listVars

\* -------------------------------------------------------------------- lists
\* List, as the client holds it and the routes answer it
List(id, title, isPinned, taskCount, completedCount, updatedAt) ==
    [id |-> id, title |-> title, isPinned |-> isPinned, taskCount |-> taskCount,
     completedCount |-> completedCount, updatedAt |-> updatedAt]

\* A list document with its tasks subcollection: tasks, the number of task
\* documents; done, how many of them have isCompleted = true.
ListDoc(id, title, isPinned, updatedAt, nTasks, nDone) ==
    [id |-> id, title |-> title, isPinned |-> isPinned, updatedAt |-> updatedAt,
     tasks |-> nTasks, done |-> nDone]

NoList == List(0, <<>>, FALSE, 0, 0, 0)

\* One list call in flight: the values its closure captured before the await.
NoListCall ==
    [op |-> "none", phase |-> "sent", id |-> 0, title |-> <<>>, old |-> <<>>,
     list |-> NoList, resp |-> <<>>, pre |-> <<>>]

ListThrew == [st |-> "threw", ts |-> lists, call |-> NoListCall]
ListSent(ls, call) == [st |-> "sent", ts |-> ls, call |-> [call EXCEPT !.pre = lists]]

createList(title) ==
    LET t == Trim(title)
        tempId == TempId(now)
        optimisticList == List(tempId, t, FALSE, 0, 0, now)
    IN IF t = <<>> THEN ListThrew
       ELSE IF Len(t) > TITLE_MAX_LENGTH THEN ListThrew
       ELSE IF Len(lists) >= MAX_LISTS_PER_USER THEN ListThrew
       ELSE ListSent(Append(lists, optimisticList),
                     [NoListCall EXCEPT !.op = "create", !.id = tempId, !.title = t])

updateListTitle(listId, title) ==
    LET trimmedTitle == Trim(title)
        previousTitle == Find(lists, listId).title
    IN IF trimmedTitle = <<>> THEN ListThrew
       ELSE IF Len(trimmedTitle) > TITLE_MAX_LENGTH THEN ListThrew
       ELSE IF listId \notin Ids(lists) THEN ListThrew
       ELSE ListSent(MapId(lists, listId,
                           [l \in Range(lists) |-> [l EXCEPT !.title = trimmedTitle, !.updatedAt = now]]),
                     [NoListCall EXCEPT !.op = "update", !.id = listId,
                                        !.title = trimmedTitle, !.old = previousTitle])

deleteList(listId) ==
    IF listId \notin Ids(lists) THEN ListThrew
    ELSE ListSent(FilterOut(lists, listId),
                  [NoListCall EXCEPT !.op = "delete", !.id = listId,
                                     !.list = Find(lists, listId)])

refreshLists == ListSent(lists, [NoListCall EXCEPT !.op = "refresh"])

\* getList answers from the collection when it holds the list, and asks the
\* server otherwise; it never sets the collection.
ListFound == [st |-> "found", ts |-> lists, call |-> NoListCall]

getList(listId) ==
    IF listId \in Ids(lists) THEN ListFound
    ELSE ListSent(lists, [NoListCall EXCEPT !.op = "get", !.id = listId])

\* orderBy('updatedAt', 'desc'); equal stamps in document order, descending
RECURSIVE InsertByUpdated(_, _)
InsertByUpdated(s, l) ==
    IF s = <<>> THEN <<l>>
    ELSE IF \/ s[Len(s)].updatedAt > l.updatedAt
            \/ s[Len(s)].updatedAt = l.updatedAt /\ s[Len(s)].id > l.id
         THEN Append(s, l)
         ELSE Append(InsertByUpdated(SubSeq(s, 1, Len(s) - 1), l), s[Len(s)])

RECURSIVE SortByUpdated(_)
SortByUpdated(s) ==
    IF s = <<>> THEN <<>>
    ELSE InsertByUpdated(SortByUpdated(SubSeq(s, 1, Len(s) - 1)), s[Len(s)])

\* GET /: counts the task documents whose isCompleted is true
ListsGet ==
    SortByUpdated([i \in DOMAIN serverLists |->
        List(serverLists[i].id, serverLists[i].title, serverLists[i].isPinned,
             serverLists[i].tasks, serverLists[i].done, serverLists[i].updatedAt)])

\* POST /
ServerCreateList(title) == ListDoc(nextListId, title, FALSE, now, 0, 0)

\* PATCH /:listId; counts the task documents whose field completed is true,
\* a field no task document has
ServerPatchList(c) ==
    LET listData == Find(serverLists, c.id)
    IN List(c.id, c.title, listData.isPinned, listData.tasks, 0, now)

\* GET /:listId; counts the task documents whose field completed is true,
\* as PATCH /:listId does
ServerGetList(listId) ==
    LET listData == Find(serverLists, listId)
    IN List(listId, listData.title, listData.isPinned, listData.tasks, 0, listData.updatedAt)

\* Whether the route answers 2xx for the request of list call c.
ListAccepts(c) ==
    CASE c.op = "create" ->
            /\ Trim(c.title) # <<>>
            /\ Len(Trim(c.title)) <= TITLE_MAX_LENGTH
            /\ Len(serverLists) < MAX_LISTS_PER_USER
      [] c.op = "update" ->
            /\ Trim(c.title) # <<>>
            /\ Len(Trim(c.title)) <= TITLE_MAX_LENGTH
            /\ c.id \in Ids(serverLists)
      [] c.op \in {"delete", "get"} -> c.id \in Ids(serverLists)
      [] OTHER -> TRUE

ListServerHandle(i, delivered) ==
    /\ i \in DOMAIN listCalls
    /\ listCalls[i].phase = "sent"
    /\ ListAccepts(listCalls[i])
    /\ LET c == listCalls[i]
           created == ServerCreateList(c.title)
       IN /\ serverLists' =
                CASE c.op = "create" -> Append(serverLists, created)
                  [] c.op = "update" ->
                        MapId(serverLists, c.id,
                              [d \in Range(serverLists) |-> [d EXCEPT !.title = c.title, !.updatedAt = now]])
                  [] c.op = "delete" -> FilterOut(serverLists, c.id)
                  [] OTHER -> serverLists
          /\ nextListId' = IF c.op = "create" THEN nextListId + 1 ELSE nextListId
          /\ listCalls' = [listCalls EXCEPT ![i].phase = IF delivered THEN "ok" ELSE "lost",
                              ![i].resp =
                                  CASE ~delivered -> <<>>
                                    [] c.op = "create" ->
                                          <<List(created.id, created.title, FALSE, 0, 0, now)>>
                                    [] c.op = "update" -> <<ServerPatchList(c)>>
                                    [] c.op = "refresh" -> ListsGet
                                    [] c.op = "get" -> <<ServerGetList(c.id)>>
                                    [] OTHER -> <<>>]
    /\ UNCHANGED <<lists, now, issued, last>>
    /\ UNCHANGED taskVars

\* the setLists of the try branch
ListReconcile(c, prev) ==
    CASE c.op \in {"create", "update"} -> MapId(prev, c.id, [l \in Range(prev) |-> c.resp[1]])
      [] c.op = "refresh" -> c.resp
      [] OTHER -> prev

\* the setLists of the catch branch
ListRollback(c, prev) ==
    CASE c.op = "create" -> FilterOut(prev, c.id)
      [] c.op = "update" -> MapId(prev, c.id, [l \in Range(prev) |-> [l EXCEPT !.title = c.old]])
      [] c.op = "delete" -> Append(prev, c.list)
      [] OTHER -> prev

ListResolve(i) ==
    /\ i \in DOMAIN listCalls
    /\ listCalls[i].phase = "ok"
    /\ lists' = ListReconcile(listCalls[i], lists)
    /\ last' = Outcome("lists", listCalls[i].op, "ok")
    /\ listCalls' = RemoveAt(listCalls, i)
    /\ UNCHANGED <<serverLists, nextListId, now, issued>>
    /\ UNCHANGED taskVars

ListCatch(i) ==
    /\ lists' = ListRollback(listCalls[i], lists)
    /\ last' = Outcome("lists", listCalls[i].op,
                       IF listCalls[i].op = "refresh" THEN "error" ELSE "rejected")
    /\ listCalls' = RemoveAt(listCalls, i)
    /\ UNCHANGED <<serverLists, nextListId, now, issued>>
    /\ UNCHANGED taskVars

ListNetFail(i) ==
    /\ i \in DOMAIN listCalls
    /\ listCalls[i].phase # "ok"
    /\ ListCatch(i)

ListServerReject(i) ==
    /\ i \in DOMAIN listCalls
    /\ listCalls[i].phase = "sent"
    /\ ~ListAccepts(listCalls[i])
    /\ ListCatch(i)

ListIdInputs == Ids(lists) \cup {0}

StartList(r, k) ==
    /\ MayCall(k)
    /\ r.st = "sent" => Len(listCalls) < k.limit
    /\ issued' = issued + 1
    /\ IF r.st = "sent"
       THEN /\ lists' = r.ts
            /\ listCalls' = Append(listCalls, r.call)
            /\ UNCHANGED last
       ELSE /\ last' = Outcome("lists", r.call.op, "threw")
            /\ UNCHANGED <<lists, listCalls>>
    /\ UNCHANGED <<serverLists, nextListId, now>>
    /\ UNCHANGED taskVars

CallCreateList(k) ==
    \E title \in TitleInputs : StartList(Named("create", createList(title)), k)

CallUpdateListTitle(k) ==
    \E listId \in ListIdInputs, title \in TitleInputs : StartList(Named("update", updateListTitle(listId, title)), k)

CallDeleteList(k) == \E listId \in ListIdInputs : StartList(Named("delete", deleteList(listId)), k)

CallRefreshLists(k) == StartList(Named("refresh", refreshLists), k)

CallGetList(k) ==
    \E listId \in ListIdInputs \cup Ids(serverLists) :
        LET r == Named("get", getList(listId))
        IN IF r.st = "found"
           THEN /\ MayCall(k)
                /\ issued' = issued + 1
                /\ last' = Outcome("lists", "get", "ok")
                /\ UNCHANGED <<lists, listCalls, serverLists, nextListId, now>>
                /\ UNCHANGED taskVars
           ELSE StartList(r, k)

TickLists ==
    /\ now < MaxClock
    /\ now' = now + 1
    /\ UNCHANGED <<issued, last>>
    /\ UNCHANGED taskVars
    /\ UNCHANGED listVars

\* ------------------------------------------------------------ specifications
NoLists ==
    /\ lists = <<>>
    /\ serverLists = <<>>
    /\ listCalls = <<>>
    /\ nextListId = 1

\* TasksProvider mounted: empty collection, the load of the mount effect in
\* flight; useUndoRedo with both stacks empty.
InitTasks(stage) ==
    /\ tasks = <<>>
    /\ server = StoredTasks
    /\ nextId = FirstId
    /\ now = 1
    /\ calls = <<[refreshTasks.call EXCEPT !.pre = <<>>]>>
    /\ undoStack = <<>>
    /\ redoStack = <<>>
    /\ recorded = 0
    /\ issued = 0
    /\ last = NoOutcome("raw", "off")
    /\ trail = NoTrail(stage)

\* The backend and the way back; fates: whether a response may get lost.
Reliable == {TRUE}
Lossy == BOOLEAN

Network(fates) ==
    \/ \E i \in DOMAIN calls, delivered \in fates : ServerHandle(i, delivered)
    \/ \E i \in DOMAIN calls : Resolve(i)

\* The request fails: 4xx from the backend, or fetch rejects.
Failure ==
    \/ \E i \in DOMAIN calls : ServerReject(i)
    \/ \E i \in DOMAIN calls : NetFail(i)

\* canUndo / canRedo
canUndo == undoStack # <<>>
canRedo == redoStack # <<>>

\* Spec: every operation of the store, raw and wrapped, undo and redo,
\* overlapping, over a network that may fail.
Anyone == Caller({"raw", "wrap"}, MaxPending, MaxCalls)

Init == InitTasks("off") /\ NoLists

Next ==
    \/ CallCreate(Anyone)
    \/ CallToggle(Anyone)
    \/ CallTitle(Anyone)
    \/ CallReorder(Anyone)
    \/ CallDelete(Anyone)
    \/ CallRefresh(Anyone)
    \/ CallUndo(Anyone)
    \/ CallRedo(Anyone)
    \/ Network(Lossy)
    \/ Failure
    \/ Tick

Spec == Init /\ [][Next]_vars

\* SpecLog: the wrapped operations, undo and redo, overlapping, over a
\* network that may fail.
Logged == Caller({"wrap"}, MaxPending, LogCalls)

NextLog ==
    \/ CallCreate(Logged)
    \/ CallToggle(Logged)
    \/ CallTitle(Logged)
    \/ CallReorder(Logged)
    \/ CallDelete(Logged)
    \/ CallUndo(Logged)
    \/ CallRedo(Logged)
    \/ Network(Lossy)
    \/ Failure
    \/ Tick

SpecLog == Init /\ [][NextLog]_vars

\* SpecRedo: toggles through the wrapper, undo and redo, overlapping.
Redoer == Caller({"wrap"}, MaxPending, RedoCalls)

NextRedo ==
    \/ CallToggle(Redoer)
    \/ CallUndo(Redoer)
    \/ CallRedo(Redoer)
    \/ Network(Lossy)
    \/ \E i \in DOMAIN calls : NetFail(i)
    \/ Tick

SpecRedo == Init /\ [][NextRedo]_vars

\* SpecSeq: the store's own operations, one call at a time, over a network
\* that may fail.
Patient == Caller({"raw"}, 1, SeqCalls)

NextSeq ==
    \/ CallCreate(Patient)
    \/ CallToggle(Patient)
    \/ CallTitle(Patient)
    \/ CallReorder(Patient)
    \/ CallDelete(Patient)
    \/ CallRefresh(Patient)
    \/ Network(Lossy)
    \/ Failure
    \/ Tick

SpecSeq == Init /\ [][NextSeq]_vars

\* SpecBalance: a wrapped operation, undo() and redo(), one call at a time,
\* every request answered; trail observes them.
Steady == Caller({"wrap"}, 1, SeqCalls)

InitBalance == InitTasks("idle") /\ NoLists

NextBalance ==
    \/ CallCreate(Steady)
    \/ CallToggle(Steady)
    \/ CallTitle(Steady)
    \/ CallReorder(Steady)
    \/ CallDelete(Steady)
    \/ CallUndo(Steady)
    \/ CallRedo(Steady)
    \/ Network(Reliable)
    \/ Tick

SpecBalance == InitBalance /\ [][NextBalance]_vars

\* SpecLists: the lists page; one list call at a time, over a network that
\* may fail.  The user's lists when the page opens: list 1 holds StoredTasks,
\* list 2 one completed task.
StoredLists == <<ListDoc(1, TitleA, FALSE, 0, Len(StoredTasks), 0), ListDoc(2, TitleB, TRUE, 0, 1, 1)>>
FirstListId == Len(StoredLists) + 1

Visitor == Caller({"raw"}, 1, SeqCalls)

InitLists ==
    /\ tasks = <<>>
    /\ server = StoredTasks
    /\ nextId = FirstId
    /\ now = 1
    /\ calls = <<>>
    /\ undoStack = <<>>
    /\ redoStack = <<>>
    /\ recorded = 0
    /\ issued = 0
    /\ last = NoOutcome("lists", "off")
    /\ trail = NoTrail("off")
    /\ lists = <<>>
    /\ serverLists = StoredLists
    /\ listCalls = <<[refreshLists.call EXCEPT !.pre = <<>>]>>
    /\ nextListId = FirstListId

NextLists ==
    \/ CallCreateList(Visitor)
    \/ CallUpdateListTitle(Visitor)
    \/ CallDeleteList(Visitor)
    \/ CallRefreshLists(Visitor)
    \/ CallGetList(Visitor)
    \/ \E i \in DOMAIN listCalls, delivered \in Lossy : ListServerHandle(i, delivered)
    \/ \E i \in DOMAIN listCalls : ListResolve(i)
    \/ \E i \in DOMAIN listCalls : ListServerReject(i)
    \/ \E i \in DOMAIN listCalls : ListNetFail(i)
    \/ TickLists

SpecLists == InitLists /\ [][NextLists]_vars

\* A list that holds MAX_TASKS_PER_LIST tasks, of a user who has
\* MAX_LISTS_PER_USER lists; creations, deletions and undo, at most
\* MaxPending at a time, against a backend whose POST reads, then writes.
FullTasks == [i \in 1..MAX_TASKS_PER_LIST |-> Task(i, TitleA, FALSE, i, 0)]
FullLists ==
    [i \in 1..MAX_LISTS_PER_USER |->
        ListDoc(i, TitleA, FALSE, 0, IF i = OwnerId THEN Len(FullTasks) ELSE 0, 0)]

Limiter == Caller({"raw", "wrap"}, MaxPending, LimitCalls)

\* The tasks Limiter deletes: the first and the last of the list.
LimitIds == {1, MAX_TASKS_PER_LIST}

InitLimit ==
    /\ tasks = <<>>
    /\ server = FullTasks
    /\ nextId = Len(FullTasks) + 1
    /\ now = 1
    /\ calls = <<[refreshTasks.call EXCEPT !.pre = <<>>]>>
    /\ undoStack = <<>>
    /\ redoStack = <<>>
    /\ recorded = 0
    /\ issued = 0
    /\ last = NoOutcome("raw", "none")
    /\ trail = NoTrail("off")
    /\ lists = <<>>
    /\ serverLists = FullLists
    /\ listCalls = <<[refreshLists.call EXCEPT !.pre = <<>>]>>
    /\ nextListId = Len(FullLists) + 1

NextLimit ==
    \/ CallCreate(Limiter)
    \/ \E taskId \in LimitIds, rec \in Limiter.recs : DeleteCall(taskId, rec, Limiter)
    \/ CallUndo(Limiter)
    \/ Network(Reliable)
    \/ \E i \in DOMAIN calls : ServerCount(i)
    \/ \E i \in DOMAIN calls : ServerAdd(i, TRUE)
    \/ \E i \in DOMAIN calls : ServerReject(i)
    \/ CallCreateList(Limiter)
    \/ \E i \in DOMAIN listCalls : ListServerHandle(i, TRUE)
    \/ \E i \in DOMAIN listCalls : ListResolve(i)
    \/ \E i \in DOMAIN listCalls : ListServerReject(i)

SpecLimit == InitLimit /\ [][NextLimit]_vars

\* reorderTasks called with what its signature admits, Array<{ taskId,
\* order }>: the arrangements of the collection, an id that no task has, an
\* order below 1, and one task moved past the end; next to toggles, at most
\* MaxPending calls at a time, requests and responses failing.
Mover == Caller({"raw", "wrap"}, MaxPending, ReorderCalls)

OddOrders ==
    {<<[taskId |-> 0, order |-> 1]>>}
    \cup (IF tasks = <<>> THEN {}
          ELSE {<<[taskId |-> tasks[1].id, order |-> 0]>>,
                <<[taskId |-> tasks[1].id, order |-> Len(tasks) + 1]>>})

InitReorder ==
    /\ tasks = <<>>
    /\ server = StoredTasks
    /\ nextId = FirstId
    /\ now = 1
    /\ calls = <<[refreshTasks.call EXCEPT !.pre = <<>>]>>
    /\ undoStack = <<>>
    /\ redoStack = <<>>
    /\ recorded = 0
    /\ issued = 0
    /\ last = NoOutcome("raw", "none")
    /\ trail = NoTrail("off")
    /\ NoLists

NextReorder ==
    \/ \E orders \in OrderInputs \cup OddOrders, rec \in Mover.recs :
          ReorderCall(orders, rec, Mover)
    \/ CallToggle(Mover)
    \/ Network(Lossy)
    \/ Failure

SpecReorder == InitReorder /\ [][NextReorder]_vars

\* Toggles, title edits and deletions, at most MaxPending at a time, so that
\* two calls on one task overlap; every response arrives, requests may fail.
Racer == Caller({"raw"}, MaxPending, RaceCalls)

NextRace ==
    \/ CallToggle(Racer)
    \/ CallTitle(Racer)
    \/ CallDelete(Racer)
    \/ Network(Reliable)
    \/ Failure

SpecRace == InitReorder /\ [][NextRace]_vars

\* The scope changes. OtherTasks: the task documents of a second list.
OtherTasks == <<Task(9, TitleB, FALSE, 1, 0)>>

\* The listId prop of TasksProvider changes while the providers stay
\* mounted (route /lists/:listId, same element): the effect on [listId]
\* loads the tasks of the other list; nothing else is reset. Taken with no
\* call in flight; from then on server is the other list's documents.
OpenList ==
    /\ calls = <<>>
    /\ server # OtherTasks
    /\ server' = OtherTasks
    /\ calls' = <<refreshTasks.call>>
    /\ last' = Outcome("scope", "open", "ok")
    /\ UNCHANGED <<tasks, nextId, now, undoStack, redoStack, recorded, issued, trail>>
    /\ UNCHANGED listVars

\* clearHistory
clearHistory == <<>>

\* The view is left and a list is opened again: the cleanup of
\* UndoRedoProvider runs clearHistory, the providers unmount, and new ones
\* mount with their initial state and the load of the mount effect.
Revisit ==
    /\ undoStack' = clearHistory
    /\ redoStack' = clearHistory
    /\ tasks' = <<>>
    /\ calls' = <<[refreshTasks.call EXCEPT !.pre = <<>>]>>
    /\ last' = Outcome("scope", "mount", "ok")
    /\ UNCHANGED <<server, nextId, now, recorded, issued, trail>>
    /\ UNCHANGED listVars

Roamer == Caller({"wrap"}, 1, ScopeCalls)

NextScope ==
    \/ CallToggle(Roamer)
    \/ CallDelete(Roamer)
    \/ CallUndo(Roamer)
    \/ CallRedo(Roamer)
    \/ Network(Reliable)
    \/ OpenList
    \/ Revisit

SpecScope == InitReorder /\ [][NextScope]_vars

\* The store as the task list drives it. TaskItem disables the checkbox,
\* the title editor and the delete button of a task whose id starts with
\* "temp-"; handleMoveTask and handleDragEnd send an order for every task on
\* screen.
User == Caller({"raw", "wrap"}, MaxPending, ItemCalls)

ItemIds == {id \in Ids(tasks) : ~IsTemp(id)}

NextItem ==
    \/ CallCreate(User)
    \/ \E taskId \in ItemIds, rec \in User.recs : ToggleCall(taskId, rec, User)
    \/ \E taskId \in ItemIds, newTitle \in TitleInputs, rec \in User.recs :
          TitleCall(taskId, newTitle, rec, User)
    \/ \E taskId \in ItemIds, rec \in User.recs : DeleteCall(taskId, rec, User)
    \/ CallReorder(User)
    \/ Network(Reliable)
    \/ Failure

SpecItem == InitReorder /\ [][NextItem]_vars

\* The list of StoredTasks among the user's lists; the backend may take a
\* PATCH of a task in two steps, the clock read first, while the clock goes
\* on and other requests are handled.
Editor == Caller({"raw"}, MaxPending, StampCalls)

InitStamp ==
    /\ tasks = <<>>
    /\ server = StoredTasks
    /\ nextId = FirstId
    /\ now = 1
    /\ calls = <<[refreshTasks.call EXCEPT !.pre = <<>>]>>
    /\ undoStack = <<>>
    /\ redoStack = <<>>
    /\ recorded = 0
    /\ issued = 0
    /\ last = NoOutcome("raw", "none")
    /\ trail = NoTrail("off")
    /\ lists = <<>>
    /\ serverLists = StoredLists
    /\ listCalls = <<>>
    /\ nextListId = FirstListId

NextStamp ==
    \/ CallCreate(Editor)
    \/ CallToggle(Editor)
    \/ CallTitle(Editor)
    \/ CallDelete(Editor)
    \/ CallReorder(Editor)
    \/ Network(Reliable)
    \/ \E i \in DOMAIN calls : ServerStamp(i)
    \/ \E i \in DOMAIN calls : ServerWrite(i, TRUE)
    \/ \E i \in DOMAIN calls : ServerReject(i)
    \/ Tick

SpecStamp == InitStamp /\ [][NextStamp]_vars

\* ------------------------------------------------------------ kinds of step
\* The request of a call awaited by rec is sent.
Issues(rec) == Len(calls') = Len(calls) + 1 /\ calls'[Len(calls')].rec = rec

\* A call awaited by rec resolves after its response arrived.
Resolves(rec) ==
    \E i \in DOMAIN calls :
        calls[i].rec = rec /\ calls[i].phase = "ok" /\ calls' = RemoveAt(calls, i)

\* A call awaited by rec rejects after its request failed.
Fails(rec) ==
    \E i \in DOMAIN calls :
        calls[i].rec = rec /\ calls[i].phase # "ok" /\ calls' = RemoveAt(calls, i)

\* A call by rec settles without a request, with the given result.
Settles(rec, result) ==
    /\ issued' = issued + 1
    /\ calls' = calls
    /\ last'.api = rec
    /\ last'.result = result

\* ------------------------------------------------------------------- claims
\* C1: when the store operation under a ...WithUndo wrapper rejects
\* (validation or not-found before any request, or a failed request), the
\* step leaves undoStack and redoStack as they were; sending the request
\* leaves them alone as well.
C1_RejectedWrapperKeepsStacks ==
    [][(Issues("wrap") \/ Fails("wrap") \/ Settles("wrap", "threw"))
          => UNCHANGED <<undoStack, redoStack>>]_vars

\* a wrapped call was rejected after its request failed, with an action in
\* the redo stack
C1_Witness ==
    /\ last = Outcome("wrap", "none", "rejected")
    /\ redoStack # <<>>

\* C2: when the dispatch of undo() rejects, both stacks stay as they were
\* and undo() itself rejects.
C2_FailedUndoKeepsStacks ==
    [][(Fails("undo") \/ Settles("undo", "threw"))
          => /\ UNCHANGED <<undoStack, redoStack>>
             /\ last'.api = "undo"
             /\ last'.result \in {"rejected", "threw"}]_vars

\* undo() was rejected after its request failed; its action is still on top
\* of the undo stack
C2_Witness ==
    /\ last = Outcome("undo", "none", "rejected")
    /\ undoStack # <<>>
    /\ redoStack = <<>>

\* C3: undo() on an empty undoStack changes nothing; when its dispatch
\* resolves, exactly the top action leaves undoStack and is appended to
\* redoStack, nothing is recorded and the rest of both stacks is unchanged.
C3_UndoMovesTop ==
    [][/\ (undoStack = <<>> /\ Settles("undo", "noop"))
            => UNCHANGED <<tasks, calls, undoStack, redoStack>>
       /\ (Resolves("undo") \/ Settles("undo", "ok"))
            => /\ undoStack # <<>>
               /\ undoStack' = Front(undoStack)
               /\ redoStack' = Append(redoStack, undoStack[Len(undoStack)])
               /\ recorded' = recorded]_vars

\* C4: redo() on an empty redoStack changes nothing; when its dispatch
\* resolves, exactly the top action leaves redoStack and is appended to
\* undoStack; when it rejects, both stacks stay as they were.
C4_RedoMovesTop ==
    [][/\ (redoStack = <<>> /\ Settles("redo", "noop"))
            => UNCHANGED <<tasks, calls, undoStack, redoStack>>
       /\ (Resolves("redo") \/ Settles("redo", "ok"))
            => /\ redoStack # <<>>
               /\ redoStack' = Front(redoStack)
               /\ undoStack' = Append(undoStack, redoStack[Len(redoStack)])
               /\ recorded' = recorded
       /\ (Fails("redo") \/ Settles("redo", "threw"))
            => UNCHANGED <<undoStack, redoStack>>]_vars

\* C5: the record that ends a resolved wrapper call appends one action to
\* undoStack and empties redoStack, whatever the stacks held; right after
\* it canRedo is false.
C5_RecordClearsRedo ==
    /\ [][Resolves("wrap")
             => /\ Len(undoStack') = Len(undoStack) + 1
                /\ Front(undoStack') = undoStack
                /\ undoStack'[Len(undoStack')].n = recorded'
                /\ redoStack' = <<>>]_vars
    /\ [](last = Outcome("wrap", "none", "ok") => ~canRedo)

\* the first action was undone, then a second wrapped mutation resolved
C5_Witness ==
    /\ last = Outcome("wrap", "none", "ok")
    /\ recorded = 2
    /\ Len(undoStack) = 1
    /\ undoStack[1].n = 2
    /\ ~canRedo

\* C6: after a wrapped operation, undo() and then redo() with every request
\* answered, the collection (titles, flags and orders, in sequence) is what
\* it was right after the wrapped operation.
C6_UndoRedoBalanced == trail.stage = "redone" => View(tasks) = trail.snap

\* C7: when a createTask, toggleComplete, updateTitle, deleteTask or
\* reorderTasks call rejects after its request failed, the collection equals
\* the collection before that call, in every field and in order.
C7_RollbackExact ==
    [][\A i \in DOMAIN calls :
          (/\ calls[i].op \in {"create", "toggle", "title", "delete", "reorder"}
           /\ calls[i].phase # "ok"
           /\ calls' = RemoveAt(calls, i))
          => tasks' = calls[i].pre]_vars

\* C8: when a createList, updateListTitle or deleteList call rejects, the
\* lists collection equals the collection before that call: same entries,
\* same field values, same positions.
C8_ListRollbackExact ==
    [][/\ \A i \in DOMAIN listCalls :
            (/\ listCalls[i].op \in {"create", "update", "delete"}
             /\ listCalls[i].phase # "ok"
             /\ listCalls' = RemoveAt(listCalls, i))
            => lists' = listCalls[i].pre
       /\ (issued' = issued + 1 /\ listCalls' = listCalls) => lists' = lists]_vars

\* C9: no two createTask calls in flight hold the same temp id.
C9_TempIdsDistinct ==
    \A i, j \in DOMAIN calls :
        (i # j /\ calls[i].op = "create" /\ calls[j].op = "create")
        => calls[i].id # calls[j].id

\* C10: the collection never holds two tasks with the same id.
C10_IdsDistinct == \A i, j \in DOMAIN tasks : i # j => tasks[i].id # tasks[j].id

\* C11: a createTask call that resolves replaces its temp entity, where it
\* stands, by the task of the response, which then occurs exactly once; a
\* createTask call that rejects leaves no entity with its temp id; and with no createTask call in flight the collection holds no temp id.
C11_TempResolvedOnce ==
    /\ [][\A i \in DOMAIN calls :
             (calls[i].op = "create" /\ calls' = RemoveAt(calls, i))
             => IF calls[i].phase = "ok"
                THEN LET p == IndexOf(tasks, calls[i].id)
                         created == calls[i].resp[1]
                     IN /\ p # 0 => tasks' = [tasks EXCEPT ![p] = created]
                        /\ calls[i].id \notin Ids(tasks')
                        /\ Cardinality({j \in DOMAIN tasks' : tasks'[j].id = created.id}) = 1
                ELSE calls[i].id \notin Ids(tasks')]_vars
    /\ []((\A i \in DOMAIN calls : calls[i].op # "create")
             => \A j \in DOMAIN tasks : ~IsTemp(tasks[j].id))

\* C12: createTask, raw or through its wrapper, called with a title whose
\* trimmed length is outside 1..TITLE_MAX_LENGTH or while the collection holds
\* MAX_TASKS_PER_LIST tasks, throws before any request: the collection, the
\* calls in flight and the stored tasks stay as they were; and so does
\* createList with a bad title or with MAX_LISTS_PER_USER lists.
C12_CreateValidated ==
    /\ [][\A title \in TitleInputs, rec \in Limiter.recs :
              (/\ \/ Len(Trim(title)) \notin 1..TITLE_MAX_LENGTH
                  \/ Len(tasks) >= MAX_TASKS_PER_LIST
               /\ Start(Named("create", IF rec = "wrap" THEN createTaskWithUndo(title)
                                        ELSE createTask(title)),
                        rec, Limiter))
              => /\ last'.result = "threw"
                 /\ UNCHANGED <<tasks, calls, server>>]_vars
    /\ [][\A title \in TitleInputs :
              (/\ \/ Len(Trim(title)) \notin 1..TITLE_MAX_LENGTH
                  \/ Len(lists) >= MAX_LISTS_PER_USER
               /\ StartList(Named("create", createList(title)), Limiter))
              => /\ last'.result = "threw"
                 /\ UNCHANGED <<lists, listCalls, serverLists>>]_vars

\* createTask has thrown on a collection of MAX_TASKS_PER_LIST tasks
C12_Witness ==
    /\ last.op = "create" /\ last.api \in {"raw", "wrap"} /\ last.result = "threw"
    /\ Len(tasks) = MAX_TASKS_PER_LIST
    /\ issued = 1

\* C13: neither the stored tasks of the list nor the collection of the client
\* ever number more than MAX_TASKS_PER_LIST.
C13_AtMost25 ==
    /\ Len(server) <= MAX_TASKS_PER_LIST
    /\ Len(tasks) <= MAX_TASKS_PER_LIST

\* C14: updateTitle called with a title that, trimmed, is the title the task
\* has, resolves without a request and without a change of the collection;
\* updateTitleWithUndo called so sends nothing, changes nothing, records no
\* action and leaves the redo stack as it is.
C14_SameTitleIsNoOp ==
    /\ [](\A taskId \in Ids(tasks), newTitle \in TitleInputs :
              Trim(newTitle) = Find(tasks, taskId).title
              => /\ updateTitle(taskId, newTitle).st = "noop"
                 /\ updateTitle(taskId, newTitle).ts = tasks)
    /\ [][\A taskId \in Ids(tasks), newTitle \in TitleInputs :
              (/\ Trim(newTitle) = Find(tasks, taskId).title
               /\ Start(Named("title", updateTitleWithUndo(taskId, newTitle)), "wrap", Logged))
              => UNCHANGED <<tasks, calls, server, undoStack, redoStack, recorded>>]_vars

\* updateTitleWithUndo has returned on an unchanged title with an action on
\* the redo stack
C14_Witness ==
    /\ last.api = "wrap" /\ last.result = "noop"
    /\ canRedo
    /\ \E taskId \in Ids(tasks), newTitle \in TitleInputs :
          Trim(newTitle) = Find(tasks, taskId).title

\* C15: once deleteTaskWithUndo of a task has resolved and the undo() after
\* it has resolved, the last task of the collection has the deleted task's
\* title and another id, its order is above that of every other task, and
\* no task has the deleted task's id.
C15_UndoOfDeleteRecreates ==
    (trail.stage = "undone" /\ trail.type = "DELETE_TASK" /\ calls = <<>>)
    => LET deleted == redoStack[Len(redoStack)].task
           restored == tasks[Len(tasks)]
       IN /\ tasks # <<>>
          /\ restored.title = deleted.title
          /\ restored.id # deleted.id
          /\ \A j \in 1..(Len(tasks) - 1) : tasks[j].order < restored.order
          /\ deleted.id \notin Ids(tasks)

\* a delete was undone while other tasks were in the collection
C15_Witness ==
    /\ trail.stage = "undone" /\ trail.type = "DELETE_TASK" /\ calls = <<>>
    /\ Len(tasks) >= 2

\* C16: once reorderTasksWithUndo has resolved and the undo() after it has
\* resolved, the collection has the tasks in the sequence and with the order
\* values it had when reorderTasksWithUndo was called.
C16_UndoOfReorderRestores ==
    (trail.stage = "undone" /\ trail.type = "REORDER_TASKS" /\ calls = <<>>)
    => OrdersOf(tasks) = redoStack[Len(redoStack)].previousOrders

\* a reorder that moved a task was undone
C16_Witness ==
    /\ trail.stage = "undone" /\ trail.type = "REORDER_TASKS" /\ calls = <<>>
    /\ redoStack[Len(redoStack)].newOrders # redoStack[Len(redoStack)].previousOrders

\* C17: reorderTasks, raw or through its wrapper, called with an id that no
\* task of the collection has or with an order below 1, throws before any
\* request and leaves the collection as it is.
C17_ReorderValidated ==
    [][\A orders \in OrderInputs \cup OddOrders, rec \in Mover.recs :
          (/\ \E n \in DOMAIN orders :
                  orders[n].taskId \notin Ids(tasks) \/ orders[n].order < 1
           /\ ReorderCall(orders, rec, Mover))
          => /\ last'.result = "threw"
             /\ UNCHANGED <<tasks, calls, server>>]_vars

\* C18: when a reorderTasks call rejects after its request failed, the
\* collection is, task by task and in sequence, the collection at the time
\* of the call.
C18_ReorderAllOrNothing ==
    [][\A i \in DOMAIN calls :
          (/\ calls[i].op = "reorder"
           /\ calls[i].phase # "ok"
           /\ calls' = RemoveAt(calls, i))
          => /\ tasks' = calls[i].snap
             /\ calls[i].snap = calls[i].pre]_vars

\* a reorderTasks call that had moved a task has rejected
C18_Witness ==
    /\ last.op = "reorder" /\ last.result = "rejected"
    /\ tasks # <<>>
    /\ calls = <<>>

\* C19: when a reorderTasks call resolves, the order values of the
\* collection are 1..N, each once, N being the number of tasks.
C19_ReorderDense ==
    [][\A i \in DOMAIN calls :
          (/\ calls[i].op = "reorder"
           /\ calls[i].phase = "ok"
           /\ calls' = RemoveAt(calls, i))
          => {tasks'[j].order : j \in DOMAIN tasks'} = 1..Len(tasks')]_vars

\* C20: when a createTask, toggleComplete, updateTitle, deleteTask,
\* reorderTasks or restore call settles, resolved or rejected, the tasks it
\* does not target (its id, the ids of its orders, the id of its response)
\* are in the collection after the step as they were before it, none
\* changed, added or removed.
C20_SettlingTouchesOnlyTarget ==
    [][\A i \in DOMAIN calls :
          (calls[i].op # "refresh" /\ calls' = RemoveAt(calls, i))
          => LET c == calls[i]
                 Targets == {c.id} \cup {c.orders[n].taskId : n \in DOMAIN c.orders}
                                   \cup {c.resp[n].id : n \in DOMAIN c.resp}
                 Other(t) == t.id \notin Targets
             IN SelectSeq(tasks', Other) = SelectSeq(tasks, Other)]_vars

\* C21: when a toggleComplete or updateTitle call resolves, the task it names
\* is in the collection as the task of its response, whichever call on that
\* task was made first; so after two such calls the task is the one carried by
\* the response that arrived last.
C21_LastArrivalWins ==
    [][\A i \in DOMAIN calls :
          (/\ calls[i].op \in {"toggle", "title"}
           /\ calls[i].phase = "ok"
           /\ calls' = RemoveAt(calls, i)
           /\ calls[i].id \in Ids(tasks))
          => Find(tasks', calls[i].id) = calls[i].resp[1]]_vars

\* a toggle and a title edit of task 1 overlapped and both resolved, the
\* toggle's response, read before the title was stored, arriving last
C21_Witness ==
    /\ calls = <<>>
    /\ issued = 2
    /\ last.op = "toggle" /\ last.result = "ok"
    /\ 1 \in Ids(tasks) /\ Find(tasks, 1).title = TitleA
    /\ Find(server, 1).title = TitleB

\* C22: every change of scope, the open list changing or the view being
\* left, leaves undoStack and redoStack empty.
C22_ScopeChangeClears ==
    [][(OpenList \/ Revisit) => (undoStack' = <<>> /\ redoStack' = <<>>)]_vars

C24_NoRequestForTempId ==
    \A i \in DOMAIN calls :
        /\ calls[i].op \in {"toggle", "title", "delete"} => ~IsTemp(calls[i].id)
        /\ calls[i].op = "reorder"
              => \A n \in DOMAIN calls[i].orders : ~IsTemp(calls[i].orders[n].taskId)

\* C25: with every request answered and no call in flight, undo() with an
\* action on undoStack and redo() with an action on redoStack never throw
\* before their request, and the request they send is one the backend
\* accepts.
C25_ActionsStayReplayable ==
    /\ [][/\ (canUndo /\ calls = <<>> /\ CallUndo(Steady))
                => (calls' # calls \/ last'.result = "ok")
          /\ (canRedo /\ calls = <<>> /\ CallRedo(Steady))
                => (calls' # calls \/ last'.result = "ok")]_vars
    /\ [](\A i \in DOMAIN calls :
              (calls[i].rec \in {"undo", "redo"} /\ calls[i].phase = "sent")
              => Accepts(calls[i]))

\* C26: undo() of a DELETE_TASK action behaves as createTask of the deleted
\* title: with MAX_TASKS_PER_LIST tasks in the collection it sends no
\* request, and when its request resolves the task of the response is in
\* the collection exactly once.
C26_UndoOfDeleteIsCreate ==
    /\ [][(/\ canUndo
           /\ undoStack[Len(undoStack)].type = "DELETE_TASK"
           /\ Len(tasks) >= MAX_TASKS_PER_LIST
           /\ CallUndo(Limiter))
          => calls' = calls]_vars
    /\ [][\A i \in DOMAIN calls :
              (calls[i].op = "restore" /\ calls[i].phase = "ok" /\ calls' = RemoveAt(calls, i))
              => Cardinality({j \in DOMAIN tasks' : tasks'[j].id = calls[i].resp[1].id}) = 1]_vars

\* C27: when undo() of a COMPLETE_TASK action resolves, the task of the
\* action has isCompleted = previousState; when redo() of a COMPLETE_TASK
\* action resolves, it has isCompleted = ~previousState.
C27_UndoOfToggleRestores ==
    [][\A i \in DOMAIN calls :
          (/\ calls[i].rec \in {"undo", "redo"}
           /\ calls[i].act.type = "COMPLETE_TASK"
           /\ calls[i].phase = "ok"
           /\ calls' = RemoveAt(calls, i))
          => Find(tasks', calls[i].act.taskId).isCompleted
                = IF calls[i].rec = "undo" THEN calls[i].act.previousState
                  ELSE ~calls[i].act.previousState]_vars

\* C28: when a toggleComplete call rejects after its request failed, the
\* task it names, if in the collection, has the isCompleted it had when the
\* call was made, whatever other toggles of that task did in between.
C28_FailedToggleRestoresFlag ==
    [][\A i \in DOMAIN calls :
          (/\ calls[i].op = "toggle"
           /\ calls[i].phase # "ok"
           /\ calls' = RemoveAt(calls, i)
           /\ calls[i].id \in Ids(tasks))
          => Find(tasks', calls[i].id).isCompleted
                = Find(calls[i].pre, calls[i].id).isCompleted]_vars

\* one of two toggles of task 1 has rejected while the other is in flight
\* (task 2 was never touched)
C28_Witness ==
    /\ last.op = "toggle" /\ last.result = "rejected"
    /\ issued = 2
    /\ Len(calls) = 1 /\ calls[1].op = "toggle" /\ calls[1].id = 1
    /\ 2 \in Ids(tasks) /\ Find(tasks, 2).updatedAt = 0

\* C29: deleteTask of a task of the collection takes it out of the collection
\* at the call; when the call rejects after its request failed, the task as
\* it was at the call is in the collection again, after every task of lower
\* order and before every task of higher order.
C29_DeleteOptimisticAndRestored ==
    /\ [][\A taskId \in Ids(tasks), rec \in Racer.recs :
              DeleteCall(taskId, rec, Racer)
              => (tasks' = FilterOut(tasks, taskId) /\ taskId \notin Ids(tasks'))]_vars
    /\ [][\A i \in DOMAIN calls :
              (/\ calls[i].op = "delete"
               /\ calls[i].phase # "ok"
               /\ calls' = RemoveAt(calls, i))
              => \E p \in DOMAIN tasks' :
                    /\ tasks'[p] = calls[i].task
                    /\ calls[i].task = Find(calls[i].pre, calls[i].id)
                    /\ \A j \in 1..(p - 1) : tasks'[j].order <= tasks'[p].order
                    /\ \A j \in (p + 1)..Len(tasks') : tasks'[j].order >= tasks'[p].order]_vars

\* a deleteTask call has rejected and both stored tasks are on screen
C29_Witness ==
    /\ last.op = "delete" /\ last.result = "rejected"
    /\ calls = <<>>
    /\ {1, 2} \subseteq Ids(tasks)

\* C30: a createTask call that passes validation appends one task to the
\* collection at the call: its id is a temp id, its title the trimmed
\* title, isCompleted false, and its order 1 in an empty collection and one
\* above the greatest order otherwise.
C30_CreateAppendsTemp ==
    [][\A title \in TitleInputs, rec \in User.recs :
          (/\ Len(Trim(title)) \in 1..TITLE_MAX_LENGTH
           /\ Len(tasks) < MAX_TASKS_PER_LIST
           /\ Start(Named("create", IF rec = "wrap" THEN createTaskWithUndo(title)
                                    ELSE createTask(title)),
                    rec, User))
          => /\ Len(tasks') = Len(tasks) + 1
             /\ SubSeq(tasks', 1, Len(tasks)) = tasks
             /\ LET t == tasks'[Len(tasks')]
                IN /\ IsTemp(t.id)
                   /\ t.title = Trim(title)
                   /\ t.isCompleted = FALSE
                   /\ \A j \in DOMAIN tasks : tasks[j].order < t.order
                   /\ IF tasks = <<>> THEN t.order = 1
                      ELSE \E j \in DOMAIN tasks : t.order = tasks[j].order + 1]_vars

\* the temp task of a createTask call in flight stands last, one order
\* above a loaded task, after a task of lower order was taken out
C30_Witness ==
    /\ Len(tasks) = 2
    /\ tasks[1].id = 2
    /\ IsTemp(tasks[2].id) /\ tasks[2].order = 3 /\ tasks[2].title = TitleB
    /\ \E i \in DOMAIN calls : calls[i].op = "create" /\ calls[i].id = tasks[2].id


\* C31: taskCount and completedCount of a list are derived from its tasks.
\* Every representation of a stored list in a response on its way to the
\* client (GET /, GET /:listId, POST /, PATCH /:listId) has taskCount equal to the number
\* of the list's task documents and completedCount equal to the number of
\* them with isCompleted = true; so has every stored list in the client's
\* lists collection, a title update included.  No task of a list changes
\* under SpecLists, so the counts of a representation never go stale.
CountsDerived(l) ==
    l.id \in Ids(serverLists) =>
        /\ l.taskCount = Find(serverLists, l.id).tasks
        /\ l.completedCount = Find(serverLists, l.id).done

C31_CountsDerived ==
    /\ \A i \in DOMAIN listCalls :
          listCalls[i].phase = "ok" =>
              \A j \in DOMAIN listCalls[i].resp : CountsDerived(listCalls[i].resp[j])
    /\ \A j \in DOMAIN lists : CountsDerived(lists[j])


\* C32: a successful mutation of a task bumps the owning list's updatedAt.
\* Every step in which the backend changes the tasks of the list (a task
\* created, toggled, renamed, reordered or deleted) leaves the list document
\* with an updatedAt that is not older than the updatedAt of any of its
\* tasks, so that the list sorts by its most recent task change.
C32_ListBumped ==
    [][server' # server =>
          \A j \in DOMAIN server' :
              Find(serverLists', OwnerId).updatedAt >= server'[j].updatedAt]_vars


\* C33: each recorded Action is in at most one place.  In every state, also
\* with undo() or redo() called again while an earlier one awaits its
\* request, no Action (told apart by n, the count at which it was recorded)
\* occurs twice in undoStack, twice in redoStack or in both, and no two
\* undo() calls in flight dispatch the inverse of the same Action.
History == undoStack \o redoStack

C33_ActionInOnePlace ==
    /\ \A i, j \in DOMAIN History : i # j => History[i].n # History[j].n
    /\ \A i, j \in DOMAIN calls :
          (i # j /\ calls[i].rec = "undo" /\ calls[j].rec = "undo") =>
              calls[i].act.n # calls[j].act.n


\* C34: a confirmed Action is not lost from history.  When an undo()
\* resolves, every Action that a wrapper recorded while that undo() awaited
\* its request (it is on undoStack, and is neither the Action being undone
\* nor in the stack undo() read; under SpecLimit Actions reach undoStack
\* only by being recorded) is still on undoStack afterwards, and redoStack
\* then holds no Action older than it.
RecordedSince(c) ==
    {k \in DOMAIN undoStack :
        /\ undoStack[k].n # c.act.n
        /\ \A m \in DOMAIN c.stk : c.stk[m].n # undoStack[k].n}

C34_RecordedSurvivesUndo ==
    [][\A i \in DOMAIN calls :
          (calls[i].rec = "undo" /\ calls[i].phase = "ok" /\ calls' = RemoveAt(calls, i)) =>
              \A k \in RecordedSince(calls[i]) :
                  /\ \E m \in DOMAIN undoStack' : undoStack'[m].n = undoStack[k].n
                  /\ \A m \in DOMAIN redoStack' : redoStack'[m].n > undoStack[k].n]_vars


\* C35: a task whose createTask call resolved is in the collection under
\* its canonical id.  At the step in which a createTask call resolves, the
\* collection holds a task with the id of the server's response, whatever
\* refreshTasks or a reorder's snapshot restore did while the call was in
\* flight.
C35_CreatedTaskPresent ==
    [][\A i \in DOMAIN calls :
          (calls[i].op = "create" /\ calls[i].phase = "ok" /\ calls' = RemoveAt(calls, i)) =>
              calls[i].resp[1].id \in Ids(tasks')]_vars


\* C36: with no call in flight the collection is in ascending order of the
\* tasks' order values, after any successful, failed or overlapping create,
\* delete, toggle, title update and reorder.
Ascending(ts) == \A i, j \in DOMAIN ts : i < j => ts[i].order <= ts[j].order

C36_HeldInOrder == calls = <<>> => Ascending(tasks)

====
